---- MODULE Spec2Model ----
(***************************************************************************)
(* Model of app.py: the valuation-percentile signal (get_latest_data), its *)
(* st.cache_data wrapper, and the Streamlit page script that renders the   *)
(* signal, the 4% drawdown rule, the share estimate and the chart.         *)
(*                                                                         *)
(* Numbers: pandas/Python floats are modelled as exact rationals           *)
(* [num, den] (den > 0); formatting (f"{x:.2%}" and friends) is modelled   *)
(* as round-half-even to the printed digit.  None is the empty tuple <<>>  *)
(* and a present value x is <<x>>.  NaN (the result of Series.asof with no *)
(* earlier row) is the record NaNF.                                        *)
(***************************************************************************)
EXTENDS Integers, Sequences, FiniteSets, TLC

\* ------------------------------------------------------------------ bounds
\* Dates of the remote series are 1..MaxDate (one observation per date at most).
MaxDate == 3

\* ------------------------------------------------------- program constants
\* history_years=10 (default argument of get_latest_data)
HistoryYears == 10
\* ttl="12h" of st.cache_data, in hours
TtlHours == 12
\* entry_percentile=0.5, exit_percentile=0.85 (defaults), in percent
DefaultEntryPct == 50
DefaultExitPct == 85
\* last_buy_price * (1 - 0.04): the factor 0.96 in percent
DrawdownKeepPct == 96

\* --------------------------------------------------------------- rationals
Rat(n, d) == [num |-> n, den |-> d]
RatOfInt(n) == Rat(n, 1)
RatLt(a, b) == a.num * b.den < b.num * a.den
RatEq(a, b) == a.num * b.den = b.num * a.den
RatLe(a, b) == a.num * b.den <= b.num * a.den
RatGt(a, b) == RatLt(b, a)

\* Python's float formatting to a fixed number of digits: the value scaled
\* by `scale`, rounded half to even.
RoundHalfEven(r, scale) ==
    LET n == r.num * scale
        q == n \div r.den
        rem2 == 2 * (n % r.den)
    IN  IF rem2 < r.den THEN q
        ELSE IF rem2 > r.den THEN q + 1
        ELSE IF q % 2 = 0 THEN q ELSE q + 1

\* f"{x:.2%}": hundredths of a percent
FormatPct2(r) == <<"%.2", RoundHalfEven(r, 10000)>>
\* f"{x:.0%}": whole percent
FormatPct0(r) == <<"%.0", RoundHalfEven(r, 100)>>
\* f"{x:.2f}": hundredths
FormatF2(r) == <<"f.2", RoundHalfEven(r, 100)>>
\* latest_date_dt.strftime('%Y-%m-%d')
Strftime(d) == <<"%Y-%m-%d", d>>

\* -------------------------------------------------------------------- None
None == <<>>
Some(x) == <<x>>
IsNone(o) == o = <<>>
Get(o) == o[1]

\* NaN-able floats (current_price_eod, price_for_decision)
NaNF == [nan |-> TRUE, v |-> 0]
F(n) == [nan |-> FALSE, v |-> n]

\* ------------------------------------------------------------------ series
\* A DataFrame indexed by date: a sequence of rows [date, v], dates increasing.
Row(d, x) == [date |-> d, v |-> x]

RECURSIVE SumRange(_, _)
SumRange(lo, hi) == IF lo > hi THEN 0 ELSE hi + SumRange(lo, hi - 1)

\* rank(method='min', pct=True): ties take the lowest ordinal position
RankPctLastMin(vals) ==
    LET n == Len(vals)
        x == vals[n]
        less == Cardinality({j \in 1..n : RatLt(vals[j], x)})
    IN  Rat(less + 1, n)

\* rank(method='max', pct=True): ties take the highest ordinal position
RankPctLastMax(vals) ==
    LET n == Len(vals)
        x == vals[n]
        le == Cardinality({j \in 1..n : RatLe(vals[j], x)})
    IN  Rat(le, n)

\* Series.rank(pct=True).iloc[-1] with pandas' default method='average':
\* the last value's ordinal positions in sorted order are less+1 .. less+eq,
\* its rank is their mean, and pct=True divides by the number of values.
\* `vals` is a non-empty sequence of rationals.
RankPctLast(vals) ==
    LET n == Len(vals)
        x == vals[n]
        less == Cardinality({j \in 1..n : RatLt(vals[j], x)})
        eq == Cardinality({j \in 1..n : RatEq(vals[j], x)})
    IN  Rat(SumRange(less + 1, less + eq), eq * n)

\* the window filter left out: the full series
WindowUnfiltered(df, ten_years_ago) == df

\* df[df.index >= ten_years_ago]
Window(df, ten_years_ago) == SelectSeq(df, LAMBDA r : r.date >= ten_years_ago)

\* Series.asof(where): the value of the last row whose date is <= where,
\* NaN when there is none.
AsOf(df, where) ==
    LET upto == SelectSeq(df, LAMBDA r : r.date <= where)
    IN  IF Len(upto) = 0 THEN NaNF ELSE F(upto[Len(upto)].v)

PeRats(df) == [i \in 1..Len(df) |-> RatOfInt(df[i].v)]

\* ------------------------------------------------------------- INDEX_MAP
INDEX_MAP ==
    [csi300  |-> [valuation_code |-> "csi300",  spot_code |-> "sh000300"],
     csi500  |-> [valuation_code |-> "csi500",  spot_code |-> "sh000905"],
     chinext |-> [valuation_code |-> "chinext", spot_code |-> "sz399006"],
     sse50   |-> [valuation_code |-> "sse50",   spot_code |-> "sh000016"],
     star50  |-> [valuation_code |-> "star50",  spot_code |-> "sh000688"]]

\* re.sub(r'\D', '', spot_code) on the spot codes of INDEX_MAP
DigitsOf(spot_code) ==
    CASE spot_code = "sh000300" -> "000300"
      [] spot_code = "sh000905" -> "000905"
      [] spot_code = "sz399006" -> "399006"
      [] spot_code = "sh000016" -> "000016"
      [] spot_code = "sh000688" -> "000688"

\* ----------------------------------------------------------------- signal
SignalBuy == "BUY"
SignalHold == "HOLD"
SignalSell == "SELL"

\* the entry comparison written <= instead of <
SignalEntryInclusive(latest_pe_percentile, entry_percentile, exit_percentile) ==
    IF RatLe(latest_pe_percentile, entry_percentile) THEN SignalBuy
    ELSE IF RatGt(latest_pe_percentile, exit_percentile) THEN SignalSell
    ELSE SignalHold

\* lines 91-95: strict comparisons, HOLD by default
Signal(latest_pe_percentile, entry_percentile, exit_percentile) ==
    IF RatLt(latest_pe_percentile, entry_percentile) THEN SignalBuy
    ELSE IF RatGt(latest_pe_percentile, exit_percentile) THEN SignalSell
    ELSE SignalHold

\* line 88: valuation_df_10y['pe'].rank(pct=True).iloc[-1]
LatestPePercentile(valuation_df_10y) == RankPctLast(PeRats(valuation_df_10y))

\* line 64: price_df_10y['close'].iloc[-1]
LastClose(price_df_10y) == price_df_10y[Len(price_df_10y)].v

\* line 55: price_df_10y['close'].asof(latest_date_dt)
CurrentPriceEod(price_df_10y, latest_date_dt) == AsOf(price_df_10y, latest_date_dt)

\* line 61: spot_df[spot_df['代码'] == digits]['最新价'] (iloc[0] of it raises
\* IndexError when no row matches)
SpotMatches(spot_df, spot_code) ==
    SelectSeq(spot_df, LAMBDA r : r.code = DigitsOf(spot_code))

\* The five-tuple returned at lines 51 and 85
AllNone ==
    [result |-> None, current_price |-> None, valuation_df |-> None,
     price_df |-> None, realtime_metrics |-> None]

NoFrame == [reached |-> "abort"]

\* the real-time block with the metrics dictionary built before the lookup
\* of the live price and not reset to None in the except
RealtimeBlockNoReset(valuation_df_10y, price_df_10y, spot_out, spot_code) ==
    IF spot_out.raises
    THEN [outcome |-> "raised", realtime_metrics |-> Some([realtime_price |-> 0])]
    ELSE
      LET matches == SpotMatches(spot_out.rows, spot_code)
      IN  IF Len(matches) = 0
          THEN [outcome |-> "raised", realtime_metrics |-> Some([realtime_price |-> 0])]
          ELSE
            LET realtime_price == matches[1].price
                last_pe == valuation_df_10y[Len(valuation_df_10y)].v
                last_close == LastClose(price_df_10y)
            IN  IF last_pe > 0 /\ last_close > 0
                THEN
                  \* realtime_price / (last_close / last_pe)
                  LET realtime_pe == Rat(realtime_price * last_pe, last_close)
                      combined_pe == Append(PeRats(valuation_df_10y), realtime_pe)
                      realtime_pe_percentile == RankPctLast(combined_pe)
                  IN  [outcome |-> "computed",
                       last_pe |-> last_pe,
                       last_close |-> last_close,
                       realtime_pe |-> realtime_pe,
                       realtime_pe_percentile |-> realtime_pe_percentile,
                       realtime_metrics |-> Some(
                         [realtime_price |-> realtime_price,
                          realtime_pe |-> FormatF2(realtime_pe),
                          realtime_pe_percentile |-> FormatPct2(realtime_pe_percentile)])]
                ELSE [outcome |-> "skipped", last_pe |-> last_pe,
                      last_close |-> last_close, realtime_metrics |-> None]

\* lines 57-81: the real-time estimate.  Returns the frame of the block:
\* outcome "raised" (the except of line 78 ran), "skipped" (the guard of
\* line 66 was false) or "computed".
RealtimeBlock(valuation_df_10y, price_df_10y, spot_out, spot_code) ==
    IF spot_out.raises
    THEN [outcome |-> "raised", realtime_metrics |-> None]
    ELSE
      LET matches == SpotMatches(spot_out.rows, spot_code)
      IN  IF Len(matches) = 0
          THEN [outcome |-> "raised", realtime_metrics |-> None]
          ELSE
            LET realtime_price == matches[1].price
                last_pe == valuation_df_10y[Len(valuation_df_10y)].v
                last_close == LastClose(price_df_10y)
            IN  IF last_pe > 0 /\ last_close > 0
                THEN
                  \* realtime_price / (last_close / last_pe)
                  LET realtime_pe == Rat(realtime_price * last_pe, last_close)
                      combined_pe == Append(PeRats(valuation_df_10y), realtime_pe)
                      realtime_pe_percentile == RankPctLast(combined_pe)
                  IN  [outcome |-> "computed",
                       last_pe |-> last_pe,
                       last_close |-> last_close,
                       realtime_pe |-> realtime_pe,
                       realtime_pe_percentile |-> realtime_pe_percentile,
                       realtime_metrics |-> Some(
                         [realtime_price |-> realtime_price,
                          realtime_pe |-> FormatF2(realtime_pe),
                          realtime_pe_percentile |-> FormatPct2(realtime_pe_percentile)])]
                ELSE [outcome |-> "skipped", last_pe |-> last_pe,
                      last_close |-> last_close, realtime_metrics |-> None]

\* lines 28-105: the body of get_latest_data.  val_out, price_out and spot_out
\* are what the three akshare calls do ([raises, ...]); today is
\* pd.Timestamp.now() as a date.  Returns [ret, frame]: the returned tuple and
\* the locals at the return.
GetLatestData(val_out, price_out, spot_out, today, spot_code, entry_percentile, exit_percentile, history_years) ==
    IF val_out.raises \/ price_out.raises
    THEN [ret |-> AllNone, frame |-> NoFrame]
    ELSE
      LET ten_years_ago == today - history_years
          valuation_df_10y == Window(val_out.df, ten_years_ago)
          price_df_10y == Window(price_out.df, ten_years_ago)
      IN  IF Len(valuation_df_10y) = 0 \/ Len(price_df_10y) = 0
          THEN [ret |-> AllNone, frame |-> NoFrame]
          ELSE
            LET latest_date_dt == valuation_df_10y[Len(valuation_df_10y)].date
                current_price_eod == CurrentPriceEod(price_df_10y, latest_date_dt)
                rt == RealtimeBlock(valuation_df_10y, price_df_10y, spot_out, spot_code)
                latest_pe_percentile == LatestPePercentile(valuation_df_10y)
                signal == Signal(latest_pe_percentile, entry_percentile, exit_percentile)
                result == [date |-> Strftime(latest_date_dt),
                           pe_percentile |-> FormatPct2(latest_pe_percentile),
                           signal |-> signal,
                           entry_threshold |-> <<"<", FormatPct0(entry_percentile)>>,
                           exit_threshold |-> <<">", FormatPct0(exit_percentile)>>]
            IN  [ret |-> [result |-> Some(result),
                          current_price |-> Some(current_price_eod),
                          valuation_df |-> Some(valuation_df_10y),
                          price_df |-> Some(price_df_10y),
                          realtime_metrics |-> rt.realtime_metrics],
                 frame |-> [reached |-> "return",
                            latest_pe_percentile |-> latest_pe_percentile,
                            current_price_eod |-> current_price_eod,
                            rt |-> rt]]

\* ------------------------------------------------------------------ state
VARIABLES
    call,    \* the inputs of the last execution of get_latest_data's body
    ret,     \* the five-tuple the last call of get_latest_data returned
    frame,   \* the locals of that execution at its return
    cache,   \* st.cache_data's store: key -> None or Some([value, age])
    page     \* what the last run of the page script rendered

vars == <<call, ret, frame, cache, page>>

\* ----------------------------------------------------------- input domains
Dates == 1..MaxDate

\* every series over Dates with values in vals (dates strictly increasing)
SeriesOver(vals) ==
    { s \in UNION { [1..n -> { Row(d, x) : d \in Dates, x \in vals }] : n \in 0..MaxDate } :
        \A i \in 1..Len(s) : \A j \in 1..Len(s) : i < j => s[i].date < s[j].date }

Raises == [raises |-> TRUE, df |-> <<>>]
Returns(df) == [raises |-> FALSE, df |-> df]

\* the two windows of the end-to-end scenarios, one observation per date
RisingWindow == [i \in 1..6 |-> Row(i + 1, 8 + 2 * i)]
FallingWindow == [i \in 1..6 |-> Row(i + 1, 22 - 2 * i)]
\* a window of four identical values
FlatWindow == [i \in 1..4 |-> Row(i + 1, 5)]

EnginePeValues == {0, 1, 2}
EngineCloseValues == {0, 2}
EngineValOuts ==
    {Raises} \cup { Returns(s) : s \in SeriesOver(EnginePeValues) }
             \cup {Returns(RisingWindow), Returns(FallingWindow), Returns(FlatWindow)}
EnginePriceOuts == {Raises} \cup { Returns(s) : s \in SeriesOver(EngineCloseValues) }

SpotRaises == [raises |-> TRUE, rows |-> <<>>]
SpotReturns(rows) == [raises |-> FALSE, rows |-> rows]
SpotRow(c, p) == [code |-> c, price |-> p]
\* a spot table with a row of another index only, or with the index's row too
SpotTable(spot_code, prices) ==
    {SpotRaises, SpotReturns(<<SpotRow("000001", 1)>>)}
      \cup { SpotReturns(<<SpotRow("000001", 1), SpotRow(DigitsOf(spot_code), p)>>) : p \in prices }

EngineLivePrices == {1, 3}
\* pd.Timestamp.now(): the cutoff today - history_years is date 2, so a row
\* of date 1 is older than the window
EngineTodays == {HistoryYears + 2}
Pct(p) == Rat(p, 100)
EngineThresholds ==
    { t \in {DefaultEntryPct, 75, DefaultExitPct} \X {DefaultEntryPct, 75, DefaultExitPct} :
        t[1] < t[2] }
EngineIndexNames == {"csi300"}

NoCall == [kind |-> "none"]
NoCacheEntry == None
CacheKeys == { <<INDEX_MAP[n].valuation_code, INDEX_MAP[n].spot_code>> : n \in DOMAIN INDEX_MAP }
NoPage == [status |-> "none"]

Init ==
    /\ call = NoCall
    /\ ret = AllNone
    /\ frame = NoFrame
    /\ cache = [k \in CacheKeys |-> NoCacheEntry]
    /\ page = NoPage

\* ---------------------------------------------------------------- actions
\* The arguments and the environment of one direct call of get_latest_data
\* with explicit thresholds, drawn before the call.
InitEngine ==
    /\ \E name \in EngineIndexNames, val_out \in EngineValOuts,
          price_out \in EnginePriceOuts, today \in EngineTodays,
          th \in EngineThresholds :
         \E spot_out \in SpotTable(INDEX_MAP[name].spot_code, EngineLivePrices) :
           call = [kind |-> "pending", val_out |-> val_out, price_out |-> price_out,
                   spot_out |-> spot_out, today |-> today,
                   spot_code |-> INDEX_MAP[name].spot_code,
                   entry_percentile |-> Pct(th[1]),
                   exit_percentile |-> Pct(th[2])]
    /\ ret = AllNone
    /\ frame = NoFrame
    /\ cache = [k \in CacheKeys |-> NoCacheEntry]
    /\ page = NoPage

\* The call: get_latest_data's body runs on the drawn inputs.
CallGetLatestData ==
    /\ call.kind = "pending"
    /\ LET r == GetLatestData(call.val_out, call.price_out, call.spot_out, call.today,
                              call.spot_code, call.entry_percentile,
                              call.exit_percentile, HistoryYears)
       IN  /\ call' = [call EXCEPT !.kind = "body"]
           /\ ret' = r.ret
           /\ frame' = r.frame
    /\ UNCHANGED <<cache, page>>

NextEngine == CallGetLatestData

SpecEngine == InitEngine /\ [][NextEngine]_vars

\* ------------------------------------------------------------ page script
\* Python values passed as plot_pe_history's stats argument
PyStr(x) == [type |-> "str", value |-> x, keys |-> {}]
PyDict(ks) == [type |-> "dict", value |-> "", keys |-> ks]

\* lines 109-148: plot_pe_history.  stats['danger_value'] and the two lookups
\* after it need a mapping with these keys; on a str the subscript raises
\* TypeError, and nothing is drawn.
PlotPeHistory(valuation_df, price_df, stats) ==
    IF \A k \in {"danger_value", "median_value", "opportunity_value"} :
          stats.type = "dict" /\ k \in stats.keys
    THEN [raised |-> FALSE, elements |-> <<"pyplot">>]
    ELSE [raised |-> TRUE, elements |-> <<>>]

\* the share estimate guarded by `or` instead of `and`
ShowPurchaseSuggestionEitherPositive(amount, price) ==
    IF amount > 0 \/ (~price.nan /\ price.v > 0)
    THEN [shares |-> Some(Rat(amount, price.v)), elements |-> <<"info:shares">>]
    ELSE [shares |-> None, elements |-> <<>>]

\* lines 214-217: show_purchase_suggestion (a comparison with NaN is False)
ShowPurchaseSuggestion(amount, price) ==
    IF amount > 0 /\ (~price.nan /\ price.v > 0)
    THEN [shares |-> Some(Rat(amount, price.v)), elements |-> <<"info:shares">>]
    ELSE [shares |-> None, elements |-> <<>>]

\* the trigger comparison written < instead of <=
DrawdownRuleStrict(investment_amount, last_buy_price, price_for_decision) ==
    LET sug == ShowPurchaseSuggestion(investment_amount, price_for_decision)
    IN  IF last_buy_price > 0
        THEN
          LET trigger_price == Rat(last_buy_price * DrawdownKeepPct, 100)
          IN  IF ~price_for_decision.nan
                   /\ RatLt(RatOfInt(price_for_decision.v), trigger_price)
              THEN [trigger_price |-> Some(trigger_price), advice |-> "buy",
                    shares |-> sug.shares,
                    elements |-> <<"info:trigger_price", "success:buy_4pct">> \o sug.elements]
              ELSE [trigger_price |-> Some(trigger_price), advice |-> "wait",
                    shares |-> None,
                    elements |-> <<"info:trigger_price", "warning:wait">>]
        ELSE [trigger_price |-> None, advice |-> "first_buy", shares |-> sug.shares,
              elements |-> <<"success:first_buy">> \o sug.elements]

\* lines 219-229: the 4% rule.  trigger_price = last_buy_price * (1 - 0.04).
DrawdownRule(investment_amount, last_buy_price, price_for_decision) ==
    LET sug == ShowPurchaseSuggestion(investment_amount, price_for_decision)
    IN  IF last_buy_price > 0
        THEN
          LET trigger_price == Rat(last_buy_price * DrawdownKeepPct, 100)
          IN  IF ~price_for_decision.nan
                   /\ RatLe(RatOfInt(price_for_decision.v), trigger_price)
              THEN [trigger_price |-> Some(trigger_price), advice |-> "buy",
                    shares |-> sug.shares,
                    elements |-> <<"info:trigger_price", "success:buy_4pct">> \o sug.elements]
              ELSE [trigger_price |-> Some(trigger_price), advice |-> "wait",
                    shares |-> None,
                    elements |-> <<"info:trigger_price", "warning:wait">>]
        ELSE [trigger_price |-> None, advice |-> "first_buy", shares |-> sug.shares,
              elements |-> <<"success:first_buy">> \o sug.elements]

NoDrawdown == [trigger_price |-> None, advice |-> "none", shares |-> None, elements |-> <<>>]

\* line 174: signal_data and current_price is not None
SignalAvailable(signal_data, current_price) == ~IsNone(signal_data) /\ ~IsNone(current_price)

\* line 196: "买入" in signal
IsBuySignal(r) == SignalAvailable(r.result, r.current_price) /\ Get(r.result).signal = SignalBuy

\* lines 154-246: the page script after get_latest_data returned r.  widgets
\* holds the two number inputs (read only in the BUY branch).
Render(selected_index_name, r, widgets) ==
    LET head == <<"title", "toast">>
        foot == <<"markdown:rule", "markdown:how_it_works", "write:principle",
                  "info:hourly_update">>
    IN  IF SignalAvailable(r.result, r.current_price)
        THEN
          LET signal == Get(r.result).signal
              block1 == <<"markdown:valuation_header",
                          IF signal = SignalBuy THEN "success:signal"
                          ELSE IF signal = SignalSell THEN "error:signal"
                          ELSE "warning:signal",
                          "metric:pe_percentile", "metric:date", "caption:thresholds">>
              realtime == IF ~IsNone(r.realtime_metrics)
                          THEN <<"markdown:rule", "markdown:realtime_header",
                                 "metric:realtime_price", "metric:realtime_pe",
                                 "metric:realtime_pe_percentile">>
                          ELSE <<>>
              price_for_decision == IF ~IsNone(r.realtime_metrics)
                                    THEN F(Get(r.realtime_metrics).realtime_price)
                                    ELSE Get(r.current_price)
              dd == IF signal = SignalBuy
                    THEN DrawdownRule(widgets.investment_amount, widgets.last_buy_price,
                                      price_for_decision)
                    ELSE NoDrawdown
              drawdown == IF signal = SignalBuy
                          THEN <<"markdown:rule", "markdown:drawdown_header",
                                 "number_input:investment_amount",
                                 "number_input:last_buy_price",
                                 "metric:price_for_decision">> \o dd.elements
                          ELSE <<>>
              chart_reached == ~IsNone(r.valuation_df) /\ ~IsNone(r.price_df)
              plot == IF chart_reached
                      THEN PlotPeHistory(Get(r.valuation_df), Get(r.price_df),
                                         PyStr(selected_index_name))
                      ELSE [raised |-> FALSE, elements |-> <<>>]
              upto_chart == head \o block1 \o realtime \o drawdown
                              \o (IF chart_reached THEN <<"markdown:rule">> ELSE <<>>)
          IN  [status |-> IF plot.raised THEN "exception" ELSE "complete",
               raised_in |-> IF plot.raised THEN "plot_pe_history" ELSE "none",
               selected |-> selected_index_name,
               elements |-> IF plot.raised THEN upto_chart
                            ELSE upto_chart \o plot.elements \o foot,
               signal |-> Some(signal),
               widgets |-> IF signal = SignalBuy THEN Some(widgets) ELSE None,
               price_for_decision |-> IF signal = SignalBuy
                                      THEN Some(price_for_decision) ELSE None,
               trigger_price |-> dd.trigger_price,
               advice |-> dd.advice,
               shares |-> dd.shares]
        ELSE [status |-> "complete", raised_in |-> "none",
              selected |-> selected_index_name,
              elements |-> head \o <<"error:load_failed">> \o foot,
              signal |-> None, widgets |-> None, price_for_decision |-> None,
              trigger_price |-> None, advice |-> "none", shares |-> None]

\* ---------------------------------------------------- page input domains
\* the indices picked in the selectbox
PageIndexNames == {"csi300", "csi500"}
PageToday == HistoryYears + 2
\* remote valuation series: only older than the window; BUY (rank 1/3);
\* HOLD (rank 1/2 = entry); SELL (rank 1)
PageValOuts ==
    {Raises,
     Returns(<<Row(1, 1)>>),
     Returns(<<Row(1, 1), Row(2, 3), Row(3, 2), Row(4, 1)>>),
     Returns(<<Row(2, 2), Row(3, 1)>>),
     Returns(<<Row(2, 1), Row(3, 2)>>)}
\* remote price series: only older than the window; closes 50 and 96 on the
\* first window date; first quoted after every valuation date (asof is NaN)
PagePriceOuts ==
    {Raises,
     Returns(<<Row(1, 50)>>),
     Returns(<<Row(1, 40), Row(2, 50)>>),
     Returns(<<Row(2, 96)>>),
     Returns(<<Row(5, 50)>>)}
PageLivePrices == {0, 95, 97}
\* the spot fetch raises, or returns a table with the index's row
PageSpotOuts(spot_code) ==
    {SpotRaises} \cup { SpotReturns(<<SpotRow("000001", 1), SpotRow(DigitsOf(spot_code), p)>>) :
                          p \in PageLivePrices }
\* a call the body never reached
NotCalled == [raises |-> FALSE, df |-> <<>>, rows |-> <<>>, called |-> FALSE]
\* st.number_input values (min_value=0.0)
AmountInputs == {0, 1000}
LastBuyInputs == {0, 100}
WidgetInputs == [investment_amount : AmountInputs, last_buy_price : LastBuyInputs]
NoWidgets == [investment_amount |-> 0, last_buy_price |-> 0]
\* the clock advances in steps of TickHours
TickHours == 6

\* ------------------------------------------------------ st.cache_data
KeyOf(name) == <<INDEX_MAP[name].valuation_code, INDEX_MAP[name].spot_code>>
\* an entry is served while younger than the ttl
Fresh(entry) == ~IsNone(entry) /\ Get(entry).age < TtlHours
\* what a miss stores: whatever the function returned
Store(key, value) == [cache EXCEPT ![key] = Some([value |-> value, age |-> 0])]

\* One run of the page script for the selected index whose get_latest_data
\* call is answered from the cache.
LoadFromCache ==
    \E name \in PageIndexNames :
      /\ Fresh(cache[KeyOf(name)])
      /\ LET r == Get(cache[KeyOf(name)]).value
         IN  /\ call' = [kind |-> "hit", key |-> KeyOf(name)]
             /\ ret' = r
             /\ frame' = [reached |-> "cached"]
             /\ \E w \in (IF IsBuySignal(r) THEN WidgetInputs ELSE {NoWidgets}) :
                   page' = Render(name, r, w)
      /\ UNCHANGED cache

\* What the three akshare calls can answer during one execution of the body,
\* in call order: a call the body does not reach has no answer.
ProviderAnswers(name) ==
    UNION { UNION { { [val_out |-> val_out, price_out |-> price_out, spot_out |-> spot_out] :
                        spot_out \in
                          (IF price_out.raises
                                \/ Len(Window(val_out.df, PageToday - HistoryYears)) = 0
                                \/ Len(Window(price_out.df, PageToday - HistoryYears)) = 0
                           THEN {NotCalled}
                           ELSE PageSpotOuts(INDEX_MAP[name].spot_code)) } :
                    price_out \in (IF val_out.raises THEN {NotCalled} ELSE PagePriceOuts) } :
            val_out \in PageValOuts }

\* get_latest_data(valuation_code=..., spot_code=...) as the page calls it
\* (default thresholds and history_years), run on each of the answers
BodyRuns ==
    [name \in PageIndexNames |->
       { [call |-> [kind |-> "miss", key |-> KeyOf(name),
                    val_out |-> a.val_out, price_out |-> a.price_out,
                    spot_out |-> a.spot_out, today |-> PageToday,
                    spot_code |-> INDEX_MAP[name].spot_code,
                    entry_percentile |-> Pct(DefaultEntryPct),
                    exit_percentile |-> Pct(DefaultExitPct)],
          g |-> GetLatestData(a.val_out, a.price_out, a.spot_out, PageToday,
                              INDEX_MAP[name].spot_code,
                              Pct(DefaultEntryPct), Pct(DefaultExitPct), HistoryYears)] :
         a \in ProviderAnswers(name) }]

\* One run of the page script whose get_latest_data call executes the body
\* (no entry, or an expired one) and stores what it returned.
LoadAndFetch ==
    \E name \in PageIndexNames :
      /\ ~Fresh(cache[KeyOf(name)])
      /\ \E run \in BodyRuns[name] :
           /\ call' = run.call
           /\ ret' = run.g.ret
           /\ frame' = run.g.frame
           /\ cache' = Store(KeyOf(name), run.g.ret)
           /\ \E w \in (IF IsBuySignal(run.g.ret) THEN WidgetInputs ELSE {NoWidgets}) :
                 page' = Render(name, run.g.ret, w)

\* TickHours pass: every entry ages (an entry past the ttl stays expired).
Tick ==
    /\ \E k \in CacheKeys : Fresh(cache[k])
    /\ cache' = [k \in CacheKeys |->
                   IF IsNone(cache[k]) THEN cache[k]
                   ELSE LET e == Get(cache[k])
                        IN  Some([e EXCEPT !.age =
                                    IF e.age + TickHours >= TtlHours THEN TtlHours
                                    ELSE e.age + TickHours])]
    /\ UNCHANGED <<call, ret, frame, page>>

Next == LoadFromCache \/ LoadAndFetch \/ Tick

Spec == Init /\ [][Next]_vars

\* ------------------------------------------------ claims: get_latest_data
Returned == call.kind = "body" /\ frame.reached = "return"
TheResult == Get(ret.result)
TheWindow == Get(ret.valuation_df)
WindowValues == [i \in 1..Len(TheWindow) |-> TheWindow[i].v]
SignalOrder(sig) == CASE sig = SignalBuy -> 0 [] sig = SignalHold -> 1 [] sig = SignalSell -> 2
\* the ranks a window of up to MaxDate + 3 observations can have
RankGrid == { Rat(n, 2 * d) : n \in 1..(2 * (MaxDate + 3)), d \in 1..(MaxDate + 3) }

\* C1: the signal is BUY exactly when rank < entry, SELL exactly when
\* rank > exit and HOLD otherwise (so rank = entry and rank = exit give HOLD),
\* and no lower rank gives a signal further towards SELL.
C1_SignalByThresholds ==
    Returned =>
      LET r == frame.latest_pe_percentile
          e == call.entry_percentile
          x == call.exit_percentile
          sig == TheResult.signal
      IN  /\ (sig = SignalBuy) <=> (r.num * e.den < e.num * r.den)
          /\ (sig = SignalSell) <=> (r.num * x.den > x.num * r.den)
          /\ (sig = SignalHold) <=>
                (r.num * e.den >= e.num * r.den /\ r.num * x.den <= x.num * r.den)
          /\ (r.num * e.den = e.num * r.den \/ r.num * x.den = x.num * r.den)
                => sig = SignalHold
          /\ \A r2 \in RankGrid :
                r2.num * r.den <= r.num * r2.den
                  => SignalOrder(Signal(r2, e, x)) <= SignalOrder(sig)

C1_Witness ==
    /\ Returned
    /\ RatEq(frame.latest_pe_percentile, call.entry_percentile)
    /\ TheResult.signal = SignalHold

\* C2: the rank of the primary signal is the average-method rank of the last
\* observation of the returned window over the window size: it is in (0,1],
\* counts the latest point, and the two end-to-end windows give 1 (SELL at
\* 0.5/0.85) and 1/6 (BUY).
C2_RankOverOwnWindow ==
    Returned =>
      LET w == WindowValues
          n == Len(w)
          r == frame.latest_pe_percentile
          less == Cardinality({ i \in 1..n : w[i] < w[n] })
          ties == Cardinality({ i \in 1..n : w[i] = w[n] })
          defaults == /\ RatEq(call.entry_percentile, Pct(DefaultEntryPct))
                      /\ RatEq(call.exit_percentile, Pct(DefaultExitPct))
      IN  /\ TheWindow = Window(call.val_out.df, call.today - HistoryYears)
          /\ n >= 1
          /\ r.den > 0
          /\ 2 * n * r.num = (2 * less + ties + 1) * r.den
          /\ r.num > 0 /\ r.num <= r.den
          /\ r.num * n >= r.den
          /\ (w = <<10, 12, 14, 16, 18, 20>>) =>
                /\ r.num = r.den
                /\ defaults => TheResult.signal = SignalSell
          /\ (w = <<20, 18, 16, 14, 12, 10>>) =>
                /\ 6 * r.num = r.den
                /\ defaults => TheResult.signal = SignalBuy

C2_Witness ==
    /\ Returned
    /\ WindowValues = <<20, 18, 16, 14, 12, 10>>
    /\ RatEq(call.entry_percentile, Pct(DefaultEntryPct))
    /\ TheResult.signal = SignalBuy

AllIdentical == \A i \in 1..Len(WindowValues) : WindowValues[i] = WindowValues[1]

\* C3 (as stated): a window of identical values ranks its latest observation
\* at the top, rank 1.
C3_IdenticalRankAtTop ==
    (Returned /\ AllIdentical) => frame.latest_pe_percentile.num = frame.latest_pe_percentile.den

\* C3 (amended): a window of n identical values ranks its latest observation
\* at the mid-rank (n+1)/(2n), which is 1 only for n = 1.
C3_IdenticalRankIsMidRank ==
    (Returned /\ AllIdentical) =>
      LET n == Len(WindowValues)
          r == frame.latest_pe_percentile
      IN  /\ 2 * n * r.num = (n + 1) * r.den
          /\ (r.num = r.den) <=> (n = 1)

C3_Witness ==
    /\ Returned /\ AllIdentical /\ Len(WindowValues) = 4
    /\ 8 * frame.latest_pe_percentile.num = 5 * frame.latest_pe_percentile.den

HistoryOk ==
    /\ call.kind = "body"
    /\ ~call.val_out.raises /\ ~call.price_out.raises
    /\ Len(Window(call.val_out.df, call.today - HistoryYears)) > 0
    /\ Len(Window(call.price_out.df, call.today - HistoryYears)) > 0
LiveFailed ==
    \/ call.spot_out.raises
    \/ \A i \in 1..Len(call.spot_out.rows) :
          call.spot_out.rows[i].code # DigitsOf(call.spot_code)
WithLivePrice(p) ==
    GetLatestData(call.val_out, call.price_out,
                  SpotReturns(<<SpotRow(DigitsOf(call.spot_code), p)>>), call.today,
                  call.spot_code, call.entry_percentile, call.exit_percentile,
                  HistoryYears).ret

\* C5: with both histories fetched and their windows non-empty, a failing
\* live-price path (the fetch raises, or the index is not in the spot table)
\* leaves realtime_metrics None, the call still returns its result, and the
\* result, price and histories are those of a call whose live path succeeds,
\* whatever the live price.
C5_LiveFailureDegrades ==
    (HistoryOk /\ LiveFailed) =>
      /\ frame.reached = "return"
      /\ IsNone(ret.realtime_metrics)
      /\ ~IsNone(ret.result)
      /\ \A p \in EngineLivePrices \cup {0} :
            LET other == WithLivePrice(p)
            IN  /\ other.result = ret.result
                /\ other.current_price = ret.current_price
                /\ other.valuation_df = ret.valuation_df
                /\ other.price_df = ret.price_df

C5_Witness ==
    /\ HistoryOk /\ call.spot_out.raises
    /\ IsNone(ret.realtime_metrics)
    /\ TheResult.signal = SignalBuy

\* C9: whenever the real-time estimate is computed, the close that infers
\* the implied fundamental is the close as of the latest valuation date (the
\* end-of-day current price the call returns).
C9_CloseAsOfLatestValuationDate ==
    (Returned /\ frame.rt.outcome = "computed") =>
      F(frame.rt.last_close) = frame.current_price_eod

\* ------------------------------------------------------ claims: the page
PageLoaded == page.status # "none"
Shown(e) == \E i \in 1..Len(page.elements) : page.elements[i] = e
CountShown(es) == Cardinality({ i \in 1..Len(page.elements) : page.elements[i] \in es })
ErrorElements == {"error:load_failed", "error:signal"}
SignalBlock == {"markdown:valuation_header", "success:signal", "error:signal",
                "warning:signal", "metric:pe_percentile", "metric:date",
                "caption:thresholds"}
RealtimeElements == {"markdown:realtime_header", "metric:realtime_price",
                     "metric:realtime_pe", "metric:realtime_pe_percentile"}
DrawdownElements == {"markdown:drawdown_header", "number_input:investment_amount",
                     "number_input:last_buy_price", "metric:price_for_decision",
                     "info:trigger_price", "success:buy_4pct", "warning:wait",
                     "success:first_buy", "info:shares"}
ChartElements == {"pyplot"}
FooterShown == Shown("markdown:how_it_works") /\ Shown("info:hourly_update")
EmptyInWindow(out) ==
    \A i \in 1..Len(out.df) : out.df[i].date < call.today - HistoryYears
FetchFailed ==
    /\ call.kind = "miss"
    /\ \/ call.val_out.raises
       \/ call.price_out.raises
       \/ EmptyInWindow(call.val_out)
       \/ EmptyInWindow(call.price_out)

\* C4: when a history fetch raises or a series has no row in the trailing
\* window, get_latest_data returns all None, and a page whose call returned
\* all None shows exactly one error message and none of the signal block,
\* the real-time block, the drawdown block or the chart.
C4_FetchFailureShowsOnlyError ==
    PageLoaded =>
      /\ FetchFailed => ret = AllNone
      /\ ret = AllNone =>
           /\ CountShown(ErrorElements) = 1
           /\ Shown("error:load_failed")
           /\ CountShown(SignalBlock \cup RealtimeElements \cup DrawdownElements
                           \cup ChartElements) = 0
           /\ IsNone(page.signal) /\ IsNone(page.shares) /\ page.advice = "none"
           /\ page.status = "complete"

C4_Witness ==
    /\ PageLoaded /\ call.kind = "miss"
    /\ ~call.val_out.raises /\ ~call.price_out.raises
    /\ ~EmptyInWindow(call.val_out) /\ EmptyInWindow(call.price_out)
    /\ Shown("error:load_failed")

PageIsBuy == ~IsNone(page.signal) /\ Get(page.signal) = SignalBuy

\* C6: the drawdown rule is evaluated exactly on a BUY signal; with
\* last_buy_price = 0 it recommends the first purchase whatever the price;
\* with last_buy_price > 0 the trigger is last_buy_price * 0.96 (100 -> 96)
\* and it recommends buying exactly when the price used for the decision is
\* <= the trigger (95 and 96 buy, 97 waits).
C6_DrawdownRule ==
    PageLoaded =>
      /\ (page.advice # "none") <=> PageIsBuy
      /\ PageIsBuy =>
           LET last_buy_price == Get(page.widgets).last_buy_price
               p == Get(page.price_for_decision)
           IN  /\ p = IF IsNone(ret.realtime_metrics) THEN Get(ret.current_price)
                      ELSE F(Get(ret.realtime_metrics).realtime_price)
               /\ last_buy_price = 0 =>
                    /\ page.advice = "first_buy"
                    /\ IsNone(page.trigger_price)
                    /\ Shown("success:first_buy")
               /\ last_buy_price > 0 =>
                    /\ ~IsNone(page.trigger_price)
                    /\ LET t == Get(page.trigger_price)
                       IN  /\ t.den > 0
                           /\ 100 * t.num = 96 * last_buy_price * t.den
                           /\ last_buy_price = 100 => t.num = 96 * t.den
                           /\ (page.advice = "buy") <=> (~p.nan /\ p.v * t.den <= t.num)
                    /\ page.advice \in {"buy", "wait"}
                    /\ (page.advice = "buy") <=> Shown("success:buy_4pct")
                    /\ (page.advice = "wait") <=> Shown("warning:wait")
                    /\ (last_buy_price = 100 /\ ~p.nan /\ p.v \in {95, 96}) => page.advice = "buy"
                    /\ (last_buy_price = 100 /\ ~p.nan /\ p.v = 97) => page.advice = "wait"

C6_Witness ==
    /\ PageLoaded /\ PageIsBuy
    /\ Get(page.widgets).last_buy_price = 100
    /\ Get(page.price_for_decision) = F(96)
    /\ page.advice = "buy"

\* C7: a share estimate is shown only on a BUY page whose drawdown rule says
\* buy (never on the wait branch), exactly when amount > 0 and price > 0, and
\* then equals amount / price (1000 / 50 = 20); otherwise nothing is shown
\* and the script goes on.
C7_ShareEstimate ==
    PageLoaded =>
      /\ ~IsNone(page.shares) =>
           /\ PageIsBuy
           /\ page.advice \in {"buy", "first_buy"}
      /\ page.advice = "wait" => IsNone(page.shares)
      /\ Shown("info:shares") <=> ~IsNone(page.shares)
      /\ page.advice \in {"buy", "first_buy"} =>
           LET amount == Get(page.widgets).investment_amount
               p == Get(page.price_for_decision)
           IN  /\ ~IsNone(page.shares) <=> (amount > 0 /\ ~p.nan /\ p.v > 0)
               /\ ~IsNone(page.shares) =>
                    /\ Get(page.shares).den > 0
                    /\ Get(page.shares).num * p.v = amount * Get(page.shares).den
               /\ (amount = 1000 /\ ~p.nan /\ p.v = 50) =>
                    /\ ~IsNone(page.shares)
                    /\ Get(page.shares).num = 20 * Get(page.shares).den
               /\ page.raised_in \in {"none", "plot_pe_history"}

C7_Witness ==
    /\ PageLoaded /\ PageIsBuy /\ ~IsNone(page.shares)
    /\ Get(page.widgets).investment_amount = 1000
    /\ Get(page.price_for_decision) = F(50)
    /\ Get(page.shares).num = 20 * Get(page.shares).den

\* C8: the cache only ever holds a successful result, so a call answered
\* from the cache never returns the failed all-None outcome.
C8_CacheHoldsOnlySuccess ==
    /\ \A k \in CacheKeys : IsNone(cache[k]) \/ Get(cache[k]).value # AllNone
    /\ call.kind = "hit" => ret # AllNone

\* C10: a page load that produced a signal and has both histories runs the
\* chart step to completion: the chart is drawn, the footer is shown and the
\* script ends without an exception.
C10_ChartStepCompletes ==
    (PageLoaded /\ ~IsNone(page.signal) /\ ~IsNone(ret.valuation_df) /\ ~IsNone(ret.price_df)) =>
      /\ page.status = "complete"
      /\ Shown("pyplot")
      /\ FooterShown

====
